---- MODULE Spec2Model ----
(***************************************************************************)
(* Model of modal_chronos_api.py: the two public endpoints api_forecast    *)
(* and api_timesfm, the forecast functions they dispatch to, and the       *)
(* process-wide _MODEL_CACHE filled by get_chronos_pipeline.               *)
(*                                                                         *)
(* Each request runs in its own thread of its container (modal.concurrent  *)
(* max_inputs=10), so the steps of get_chronos_pipeline of different       *)
(* requests interleave: the membership test (line 50), the load (56-59)    *)
(* with the store (61), and the final lookup (64) are separate steps.      *)
(***************************************************************************)
EXTENDS Integers, Sequences, FiniteSets, TLC

\* ---------------------------------------------------------------- bounds
NumReq == 3
\* sample trajectories returned by one predict call
NumTraj == 3

Req == 1..NumReq

\* ------------------------------------------------------ program constants
MinPoints == 10
MaxHorizonChronos == 100
MaxHorizonTimesfm == 128
DefaultHorizon == 24
NumSamples == 20

\* ------------------------------------------------------------ JSON values
\* A payload field is a JSON value, or absent from the payload.  A list is
\* represented by its length: its elements only travel to the model.
JAbsent == [t |-> "absent", n |-> 0, s |-> ""]
JNull == [t |-> "null", n |-> 0, s |-> ""]
JMap == [t |-> "map", n |-> 0, s |-> ""]
JInt(i) == [t |-> "int", n |-> i, s |-> ""]
JStr(x) == [t |-> "str", n |-> 0, s |-> x]
JList(len) == [t |-> "list", n |-> len, s |-> ""]

\* data.get(key, default)
Get(data, key, default) == IF data[key] = JAbsent THEN default ELSE data[key]

\* ----------------------------------------------------------- result dicts
NoResult == [status |-> "none", error |-> "", model |-> "", horizon |-> 0,
             num_samples |-> 0, cached |-> FALSE,
             predictions |-> <<>>, confidence_low |-> <<>>, confidence_high |-> <<>>]

Failed(msg) == [status |-> "failed", error |-> msg, model |-> "", horizon |-> 0,
                num_samples |-> 0, cached |-> FALSE,
                predictions |-> <<>>, confidence_low |-> <<>>, confidence_high |-> <<>>]

\* mutant: the exception is not caught and leaves the function
Escapes(msg) == [status |-> "raised", error |-> msg, model |-> "", horizon |-> 0,
                 num_samples |-> 0, cached |-> FALSE,
                 predictions |-> <<>>, confidence_low |-> <<>>, confidence_high |-> <<>>]

\* forecast_chronos, lines 125-132: except Exception as e: return the failed dict
ExceptChronos(msg) == Failed(msg)

\* api_forecast, lines 237-241 (api_timesfm, 290-294): except Exception as e
ExceptApi(msg) == Failed(msg)

MsgNotList == "time_series must be a list"
MsgTooShort == "Need at least 10 historical data points"
MsgHorizonChronos == "Horizon must be between 1 and 100"
MsgHorizonTimesfm == "Horizon must be between 1 and 128"
MsgModel == "Model must be tiny, small, base, or large"
\* str(e) of the TypeError raised by `horizon < 1` on a horizon that is no number
MsgTypeError == "'<' not supported between instances of 'str' and 'int'"
\* str(e) of whatever from_pretrained / predict raised; str(e) of the KeyError
\* of _MODEL_CACHE[model_name] on a missing key
MsgLoadError == "LoadError"
MsgInferenceError == "InferenceError"
MsgKeyError == "KeyError"

ModelSizes == {"tiny", "small", "base", "large"}

\* ------------------------------------------------------------- validation
\* mutant: a mapping passes the isinstance test
IsListOrMap(ts) == ts.t \in {"list", "map"}

\* isinstance(time_series, list)
IsList(ts) == ts.t = "list"

\* mutant: off by one in the length test
TooShortOffByOne(ts) == ts.n < MinPoints - 1

\* len(time_series) < 10
TooShort(ts) == ts.n < MinPoints

\* `horizon < 1` raises TypeError unless horizon is a number
HorizonRaises(h) == h.t # "int"

\* mutant: the upper bound is excluded from the range
HorizonUpperExclusive(h, max) == h.n < 1 \/ h.n >= max

\* horizon < 1 or horizon > max
HorizonOutOfRange(h, max) == h.n < 1 \/ h.n > max

\* mutant: any string is taken as a model variant
UnknownModelLax(m) == m.t # "str"

\* model not in ["tiny", "small", "base", "large"]
UnknownModel(m) == ~(m.t = "str" /\ m.s \in ModelSizes)

Accept == "accept"

\* mutant: the horizon test comes before the length test
ValidateReordered(ts, h, m, max, msgHorizon, checkModel) ==
    IF ~IsList(ts) THEN MsgNotList
    ELSE IF HorizonRaises(h) THEN MsgTypeError
    ELSE IF HorizonOutOfRange(h, max) THEN msgHorizon
    ELSE IF TooShort(ts) THEN MsgTooShort
    ELSE IF checkModel /\ UnknownModel(m) THEN MsgModel
    ELSE Accept

\* mutant: the model rule is missing
ValidateNoModelRule(ts, h, m, max, msgHorizon, checkModel) ==
    IF ~IsList(ts) THEN MsgNotList
    ELSE IF TooShort(ts) THEN MsgTooShort
    ELSE IF HorizonRaises(h) THEN MsgTypeError
    ELSE IF HorizonOutOfRange(h, max) THEN msgHorizon
    ELSE Accept

\* The outcome of the validation block of an endpoint: Accept, or the message
\* of the failed-result it returns (through `return` or through `except`).
Validate(ts, h, m, max, msgHorizon, checkModel) ==
    IF ~IsList(ts) THEN MsgNotList
    ELSE IF TooShort(ts) THEN MsgTooShort
    ELSE IF HorizonRaises(h) THEN MsgTypeError
    ELSE IF HorizonOutOfRange(h, max) THEN msgHorizon
    ELSE IF checkModel /\ UnknownModel(m) THEN MsgModel
    ELSE Accept

ValidateForecast(data) ==
    Validate(Get(data, "time_series", JList(0)),
             Get(data, "horizon", JInt(DefaultHorizon)),
             Get(data, "model", JStr("base")),
             MaxHorizonChronos, MsgHorizonChronos, TRUE)

ValidateTimesfm(data) ==
    Validate(Get(data, "time_series", JList(0)),
             Get(data, "horizon", JInt(DefaultHorizon)),
             JAbsent,
             MaxHorizonTimesfm, MsgHorizonTimesfm, FALSE)

\* ------------------------------------------------------------------ state
Proc == {"forecast_chronos", "forecast_timesfm"}
Endpoint == {"api_forecast", "api_timesfm"}

NoHandle == 0
EmptyCache == [k \in {} |-> NoHandle]

VARIABLES
    pc,          \* request -> "idle" | "called" | "load" | "ret" | "predict" | "done"
    ep,          \* request -> the endpoint that received it
    data,        \* request -> its payload
    pipeline,    \* request -> the local `pipeline` (a handle instance, or NoHandle)
    result,      \* request -> the dict returned to the caller
    loads,       \* request -> number of from_pretrained calls it made
    before,      \* request -> the requests that had returned when it arrived
    cache,       \* container -> _MODEL_CACHE of that process
    cuda_off,    \* container -> os.environ["CUDA_VISIBLE_DEVICES"] == "" was set
    chronos,     \* request -> the dict forecast_chronos returned for it
    predicts     \* request -> number of pipeline.predict calls it made

vars == <<pc, ep, data, pipeline, result, loads, before, cache, cuda_off, chronos,
          predicts>>

NoData == [time_series |-> JAbsent, horizon |-> JAbsent, model |-> JAbsent]

Init ==
    /\ pc = [r \in Req |-> "idle"]
    /\ ep = [r \in Req |-> "api_forecast"]
    /\ data = [r \in Req |-> NoData]
    /\ pipeline = [r \in Req |-> NoHandle]
    /\ result = [r \in Req |-> NoResult]
    /\ loads = [r \in Req |-> 0]
    /\ before = [r \in Req |-> {}]
    /\ cache = [p \in Proc |-> EmptyCache]
    /\ cuda_off = [p \in Proc |-> FALSE]
    /\ chronos = [r \in Req |-> NoResult]
    /\ predicts = [r \in Req |-> 0]

\* ---------------------------------------------------- arguments of a call
\* The container whose _MODEL_CACHE serves the request: api_forecast calls
\* forecast_chronos.remote, api_timesfm calls forecast_timesfm.remote, which
\* calls forecast_chronos.local inside its own container.
ProcOf(e) == IF e = "api_forecast" THEN "forecast_chronos" ELSE "forecast_timesfm"

\* mutant: forecast_timesfm passes the payload's model on
ModelSizeOfPayload(e, d) == Get(d, "model", JStr("base")).s

\* model_size as forecast_chronos receives it
ModelSizeOf(e, d) ==
    IF e = "api_forecast" THEN Get(d, "model", JStr("base")).s ELSE "base"

HorizonOf(d) == Get(d, "horizon", JInt(DefaultHorizon)).n

\* model_name = f"amazon/chronos-t5-{model_size}"
ModelName(size) == "amazon/chronos-t5-" \o size

KeyOf(r) == ModelName(ModelSizeOf(ep[r], data[r]))

\* ------------------------------------------------- the quantile reduction
\* forecast[0] is a matrix of sample trajectories: one row per trajectory, one
\* column per future step.  Sample values are integers; quantiles are kept in
\* tenths, so that the linear interpolation at the fractional rank p*(n-1),
\* p given in tenths, is exact.

\* the samples of future step i, one per trajectory
Column(forecast, i) == [k \in DOMAIN forecast |-> forecast[k][i]]

\* mutant: the samples are taken in the order of the trajectories
OrderStatisticUnsorted(samples, k) == samples[k]

\* the k-th smallest of the samples (np.quantile partitions the samples)
OrderStatistic(samples, k) ==
    CHOOSE v \in {samples[j] : j \in DOMAIN samples} :
       /\ Cardinality({j \in DOMAIN samples : samples[j] < v}) < k
       /\ Cardinality({j \in DOMAIN samples : samples[j] <= v}) >= k

\* np.quantile of one column at p10/10, in tenths: linear interpolation
\* between the order statistics around the rank p10*(n-1)/10
Quantile(samples, p10) ==
    LET rank10 == p10 * (Cardinality(DOMAIN samples) - 1)
        below == rank10 \div 10
        part == rank10 % 10
        lo == OrderStatistic(samples, below + 1)
    IN IF part = 0 THEN 10 * lo
       ELSE 10 * lo + part * (OrderStatistic(samples, below + 2) - lo)

\* the values a sample takes
SampleValues == {-1, 0, 2}

\* Quantile, tabulated over the columns of NumTraj samples
QuantileOf ==
    [samples \in [1..NumTraj -> SampleValues] |->
        [p10 \in {1, 5, 9} |-> Quantile(samples, p10)]]

\* np.quantile(forecast[0].numpy(), q, axis=0): one value per column
QuantileAxis0(forecast, p10) ==
    [i \in DOMAIN forecast[1] |-> QuantileOf[Column(forecast, i)][p10]]

\* the success dict of forecast_chronos
Success(size, horizon, forecast) ==
    [status |-> "success", error |-> "", model |-> ModelName(size) \o " (REAL)",
     horizon |-> horizon, num_samples |-> NumSamples, cached |-> TRUE,
     predictions |-> QuantileAxis0(forecast, 5),
     confidence_low |-> QuantileAxis0(forecast, 1),
     confidence_high |-> QuantileAxis0(forecast, 9)]

\* mutant: the label is written whatever the status
RelabelAlways(res) == [res EXCEPT !.model = "TimesFM (via Chronos proxy)"]

\* forecast_timesfm, after forecast_chronos.local returned `res`
Relabel(res) ==
    IF res.status = "success" THEN [res EXCEPT !.model = "TimesFM (via Chronos proxy)"]
    ELSE res

\* the try/except of an endpoint around the call of the forecast function:
\* an exception that left the callee is turned into a failed result
ApiCatch(res) == IF res.status = "raised" THEN ExceptApi(res.error) ELSE res

\* what the endpoint of request r returns when forecast_chronos returned `res`
\* (or raised): api_timesfm goes through forecast_timesfm, which has no
\* try/except of its own
Returned(e, res) == ApiCatch(IF e = "api_timesfm" THEN Relabel(res) ELSE res)

\* mutant: the loaded pipeline is not stored
StoreDropped(c, name, h) == c

\* _MODEL_CACHE[model_name] = pipeline
Store(c, name, h) == [k \in DOMAIN c \cup {name} |-> IF k = name THEN h ELSE c[k]]

Done == {r \in Req : pc[r] = "done"}

\* ---------------------------------------------------------------- actions
\* An endpoint receives payload d: validation, then either a failed result
\* or the call of the forecast function.
Receive(r, e, d, outcome) ==
    /\ pc[r] = "idle"
    /\ ep' = [ep EXCEPT ![r] = e]
    /\ data' = [data EXCEPT ![r] = d]
    /\ before' = [before EXCEPT ![r] = Done]
    /\ IF outcome = Accept
       THEN /\ pc' = [pc EXCEPT ![r] = "called"]
            /\ UNCHANGED result
       ELSE /\ pc' = [pc EXCEPT ![r] = "done"]
            /\ result' = [result EXCEPT ![r] =
                    IF outcome = MsgTypeError THEN ExceptApi(outcome) ELSE Failed(outcome)]
    /\ UNCHANGED <<pipeline, loads, cache, cuda_off, chronos, predicts>>

api_forecast(r, d) == Receive(r, "api_forecast", d, ValidateForecast(d))

api_timesfm(r, d) == Receive(r, "api_timesfm", d, ValidateTimesfm(d))

\* get_chronos_pipeline, lines 46-50: set the environment toggle, then test
\* the cache; a hit goes to the lookup of line 64, a miss to the load.
CacheMiss(c, name) == name \notin DOMAIN c

\* mutant: the environment toggle is not set
GetPipelineEnterNoToggle(r) ==
    /\ pc[r] = "called"
    /\ pc' = [pc EXCEPT ![r] =
                IF CacheMiss(cache[ProcOf(ep[r])], KeyOf(r)) THEN "load" ELSE "ret"]
    /\ UNCHANGED <<ep, data, pipeline, result, loads, before, cache, cuda_off, chronos,
                   predicts>>

GetPipelineEnter(r) ==
    /\ pc[r] = "called"
    /\ cuda_off' = [cuda_off EXCEPT ![ProcOf(ep[r])] = TRUE]
    /\ pc' = [pc EXCEPT ![r] =
                IF CacheMiss(cache[ProcOf(ep[r])], KeyOf(r)) THEN "load" ELSE "ret"]
    /\ UNCHANGED <<ep, data, pipeline, result, loads, before, cache, chronos, predicts>>

\* ChronosPipeline.from_pretrained constructs a new object on every call; a
\* request calls it at most once, so the instance is named after the request.
NewInstance(r) == r

\* lines 56-61: from_pretrained returns a new instance, which is stored
LoadOk(r) ==
    /\ pc[r] = "load"
    /\ loads' = [loads EXCEPT ![r] = @ + 1]
    /\ cache' = [cache EXCEPT ![ProcOf(ep[r])] = Store(@, KeyOf(r), NewInstance(r))]
    /\ pc' = [pc EXCEPT ![r] = "ret"]
    /\ UNCHANGED <<ep, data, pipeline, result, before, cuda_off, chronos, predicts>>

\* forecast_chronos returns `res` (or raises), and the endpoint returns
Finish(r, res) ==
    /\ chronos' = [chronos EXCEPT ![r] = res]
    /\ result' = [result EXCEPT ![r] = Returned(ep[r], res)]
    /\ pc' = [pc EXCEPT ![r] = "done"]

\* mutant: a load that raised is attempted again
LoadFailRetries(r) ==
    /\ pc[r] = "load"
    /\ loads' = [loads EXCEPT ![r] = @ + 1]
    /\ UNCHANGED <<pc, ep, data, pipeline, result, before, cache, cuda_off, chronos,
                   predicts>>

\* lines 56-59 raise: the except of forecast_chronos returns a failed result
LoadFail(r) ==
    /\ pc[r] = "load"
    /\ loads' = [loads EXCEPT ![r] = @ + 1]
    /\ Finish(r, ExceptChronos(MsgLoadError))
    /\ UNCHANGED <<ep, data, pipeline, before, cache, cuda_off, predicts>>

\* line 64: return _MODEL_CACHE[model_name]
GetPipelineReturn(r) ==
    /\ pc[r] = "ret"
    /\ IF CacheMiss(cache[ProcOf(ep[r])], KeyOf(r))
       THEN /\ Finish(r, ExceptChronos(MsgKeyError))
            /\ UNCHANGED pipeline
       ELSE /\ pipeline' = [pipeline EXCEPT ![r] = cache[ProcOf(ep[r])][KeyOf(r)]]
            /\ pc' = [pc EXCEPT ![r] = "predict"]
            /\ UNCHANGED <<result, chronos>>
    /\ UNCHANGED <<ep, data, loads, before, cache, cuda_off, predicts>>

\* pipeline.predict(context_tensor, horizon): NumTraj sample trajectories of
\* length horizon, with values from the given set
Forecasts(horizon, values) == [1..NumTraj -> [1..horizon -> values]]

\* lines 103-124: inference returns the forecast and the quantile reduction
\* succeeds
Inference(r, forecast) ==
    /\ pc[r] = "predict"
    /\ predicts' = [predicts EXCEPT ![r] = @ + 1]
    /\ Finish(r, Success(ModelSizeOf(ep[r], data[r]), HorizonOf(data[r]), forecast))
    /\ UNCHANGED <<ep, data, pipeline, loads, before, cache, cuda_off>>

\* inference with a model whose trajectories are constant
PredictOk(r) ==
    /\ pc[r] = "predict"
    /\ \E f \in Forecasts(HorizonOf(data[r]), {0}) : Inference(r, f)

\* mutant: a failed inference evicts the model from the cache
PredictFailEvicts(r) ==
    /\ pc[r] = "predict"
    /\ predicts' = [predicts EXCEPT ![r] = @ + 1]
    /\ Finish(r, ExceptChronos(MsgInferenceError))
    /\ cache' = [cache EXCEPT ![ProcOf(ep[r])] =
                    [k \in DOMAIN @ \ {KeyOf(r)} |-> @[k]]]
    /\ UNCHANGED <<ep, data, pipeline, loads, before, cuda_off>>

\* lines 103-113 raise
PredictFail(r) ==
    /\ pc[r] = "predict"
    /\ predicts' = [predicts EXCEPT ![r] = @ + 1]
    /\ Finish(r, ExceptChronos(MsgInferenceError))
    /\ UNCHANGED <<ep, data, pipeline, loads, before, cache, cuda_off>>

\* ----------------------------------------------------------------- inputs
ListOk == JList(MinPoints)
ListShort == JList(MinPoints - 1)

Payload(ts, h, m) == [time_series |-> ts, horizon |-> h, model |-> m]

\* payloads of the concurrent specification
ForecastData ==
    { Payload(ListOk, JAbsent, JAbsent),
      Payload(ListOk, JInt(1), JStr("tiny")),
      Payload(ListShort, JAbsent, JAbsent) }

TimesfmData == { Payload(ListOk, JAbsent, JStr("tiny")) }

\* payloads of the validation specification
TimeSeriesValues == {JAbsent, JNull, JInt(5), JMap, JStr("abc"), ListShort, ListOk}

HorizonValues ==
    {JAbsent, JStr("x")} \cup
    {JInt(i) : i \in {0, 1, MaxHorizonChronos, MaxHorizonChronos + 1,
                      MaxHorizonTimesfm, MaxHorizonTimesfm + 1}}

ModelValues == {JAbsent, JNull} \cup {JStr(x) : x \in ModelSizes \cup {"medium"}}

AllData ==
    {Payload(ts, h, m) : ts \in TimeSeriesValues, h \in HorizonValues, m \in ModelValues}

\* ---------------------------------------------------------- specifications
Forecast == \E r \in Req, d \in ForecastData : api_forecast(r, d)
Timesfm == \E r \in Req, d \in TimesfmData : api_timesfm(r, d)
Enter == \E r \in Req : GetPipelineEnter(r)
Load == \E r \in Req : LoadOk(r)
LoadRaises == \E r \in Req : LoadFail(r)
Lookup == \E r \in Req : GetPipelineReturn(r)
Predict == \E r \in Req : PredictOk(r)
PredictRaises == \E r \in Req : PredictFail(r)

Next ==
    \/ Forecast
    \/ Timesfm
    \/ Enter
    \/ Load
    \/ LoadRaises
    \/ Lookup
    \/ Predict
    \/ PredictRaises

Spec == Init /\ [][Next]_vars

\* Each request is a thread of its container: a thread that can take a step
\* eventually takes one.
Step(r) ==
    \/ GetPipelineEnter(r)
    \/ LoadOk(r)
    \/ LoadFail(r)
    \/ GetPipelineReturn(r)
    \/ PredictFail(r)
    \/ PredictOk(r)

FairSpec == Spec /\ \A r \in Req : WF_vars(Step(r))

\* The cold-start specification: every request is an api_forecast call for
\* the default model, so that all of them meet on one key of one cache; they
\* ask for one future step.
ColdData == { Payload(ListOk, JInt(1), JAbsent) }

ColdForecast == \E r \in Req, d \in ColdData : api_forecast(r, d)

NextCold ==
    \/ ColdForecast
    \/ Enter
    \/ Load
    \/ LoadRaises
    \/ Lookup
    \/ Predict
    \/ PredictRaises

ColdSpec == Init /\ [][NextCold]_vars /\ \A r \in Req : WF_vars(Step(r))

\* The validation specification: one request draws its payload from AllData,
\* a second one warms the caches with a default payload or is the empty payload.
ProbeReq == {1}
WarmReq == {2}

WarmData ==
    { Payload(ListOk, JAbsent, JAbsent),
      Payload(ListOk, JInt(MaxHorizonChronos), JAbsent),
      NoData }

ProbeForecast == \E r \in ProbeReq, d \in AllData : api_forecast(r, d)
ProbeTimesfm == \E r \in ProbeReq, d \in AllData : api_timesfm(r, d)
WarmForecast == \E r \in WarmReq, d \in WarmData : api_forecast(r, d)
WarmTimesfm == \E r \in WarmReq, d \in WarmData : api_timesfm(r, d)

NextV ==
    \/ ProbeForecast
    \/ ProbeTimesfm
    \/ WarmForecast
    \/ WarmTimesfm
    \/ Enter
    \/ Load
    \/ LoadRaises
    \/ Lookup
    \/ Predict
    \/ PredictRaises

SpecV == Init /\ [][NextV]_vars

\* The reduction specification: one request, on either endpoint, asks for a
\* short horizon, and the model returns any forecast over SampleValues.
ReductionData == { Payload(ListOk, JInt(h), JAbsent) : h \in 1..2 }

ShortForecast == \E r \in ProbeReq, d \in ReductionData : api_forecast(r, d)
ShortTimesfm == \E r \in ProbeReq, d \in ReductionData : api_timesfm(r, d)
PredictSamples ==
    \E r \in Req :
       /\ pc[r] = "predict"
       /\ \E f \in Forecasts(HorizonOf(data[r]), SampleValues) : Inference(r, f)

NextQ ==
    \/ ShortForecast
    \/ ShortTimesfm
    \/ Enter
    \/ Load
    \/ LoadRaises
    \/ Lookup
    \/ PredictSamples
    \/ PredictRaises

SpecQ == Init /\ [][NextQ]_vars

\* ================================================================= claims
Received(r) == pc[r] # "idle"

\* the fields of a request as the endpoint reads them
TsOf(r) == Get(data[r], "time_series", JList(0))
HOf(r) == Get(data[r], "horizon", JInt(DefaultHorizon))
MOf(r) == Get(data[r], "model", JStr("base"))

\* the request was answered by its endpoint alone: nothing was called,
\* loaded or looked up for it
Untouched(r) == pc[r] = "done" /\ loads[r] = 0 /\ pipeline[r] = NoHandle

Rejected(r, msg) == Untouched(r) /\ result[r] = Failed(msg)

ValidationMsgs ==
    {MsgNotList, MsgTooShort, MsgHorizonChronos, MsgHorizonTimesfm, MsgModel, MsgTypeError}

SameKey(r1, r2) == ProcOf(ep[r1]) = ProcOf(ep[r2]) /\ KeyOf(r1) = KeyOf(r2)

Succeeded(r) == pc[r] = "done" /\ result[r].status = "success"

\* C1: at most one load is in flight per cache key of a process, and all
\* requests that got a handle for the same key of the same process got the
\* same instance.
C1_SingleFlight ==
    /\ \A r1, r2 \in Req :
          (pc[r1] = "load" /\ pc[r2] = "load" /\ SameKey(r1, r2)) => r1 = r2
    /\ \A r1, r2 \in Req :
          (pipeline[r1] # NoHandle /\ pipeline[r2] # NoHandle /\ SameKey(r1, r2))
             => pipeline[r1] = pipeline[r2]

\* C2: again and again no request is in flight, that is, every request that
\* was accepted eventually returns (a returned request stays returned); and
\* a request that went through forecast_chronos returned success unless its
\* load or its inference raised, and then the cache of its process holds
\* its key.
InFlight == {r \in Req : pc[r] \notin {"idle", "done"}}

C2_AllEventuallySucceed ==
    /\ []<>(InFlight = {})
    /\ [](\A r \in Req :
            (pc[r] = "done" /\ result[r].error \notin ValidationMsgs) =>
               \/ result[r].error \in {MsgLoadError, MsgInferenceError}
               \/ /\ result[r].status = "success"
                  /\ KeyOf(r) \in DOMAIN cache[ProcOf(ep[r])])

\* C2 witness: two requests for the same key that both missed the cache and
\* loaded, neither having returned when the other arrived, both succeeded.
C2_Witness ==
    \E r1, r2 \in Req :
       /\ r1 # r2 /\ SameKey(r1, r2)
       /\ Succeeded(r1) /\ Succeeded(r2)
       /\ loads[r1] = 1 /\ loads[r2] = 1
       /\ KeyOf(r1) \in DOMAIN cache[ProcOf(ep[r1])]

\* C3: a key of _MODEL_CACHE, once present, stays and keeps mapping to the
\* same handle instance in every step.
C3_AppendOnly ==
    [][\A p \in Proc : \A k \in DOMAIN cache[p] :
          k \in DOMAIN cache'[p] /\ cache'[p][k] = cache[p][k]]_vars

\* C4: of two successful requests for the same key, the second arriving
\* after the first returned, the second makes no load, from_pretrained was
\* called exactly once for the key, and both got the same handle instance.
C4_SecondRequestReuses ==
    \A r1, r2 \in Req :
       (r1 \in before[r2] /\ SameKey(r1, r2) /\ Succeeded(r1) /\ Succeeded(r2))
          => /\ loads[r2] = 0
             /\ pipeline[r2] = pipeline[r1]
             /\ Cardinality({r \in Req : Received(r) /\ SameKey(r, r1) /\ loads[r] > 0}) = 1

\* C5: the step in which a load raises returns a failed result and leaves the
\* cache without an entry for the key; a request that enters
\* get_chronos_pipeline while the key is missing attempts the load.
C5_LoadFailureLeavesNoEntry ==
    [][\A r \in Req :
          /\ (pc[r] = "load" /\ pc'[r] = "done")
                => /\ result'[r].status = "failed"
                   /\ KeyOf(r) \notin DOMAIN cache'[ProcOf(ep[r])]
          /\ (pc[r] = "called" /\ pc'[r] # "called"
                /\ KeyOf(r) \notin DOMAIN cache[ProcOf(ep[r])])
                => pc'[r] = "load"]_vars

\* C6: a request whose time_series is a list of fewer than 10 points is
\* answered with the insufficient-history failure in the very step that
\* receives it; that step calls nothing and leaves every cache unchanged.
C6_ShortHistoryRejected ==
    [][\A r \in Req :
          (pc[r] = "idle" /\ pc'[r] # "idle"
             /\ data'[r].time_series.t = "list" /\ data'[r].time_series.n < 10)
          => /\ pc'[r] = "done"
             /\ result'[r] = Failed(MsgTooShort)
             /\ loads'[r] = 0 /\ pipeline'[r] = NoHandle
             /\ cache' = cache]_vars

\* C6 witness: a short request was rejected while the cache of its process
\* held a loaded model.
C6_Witness ==
    \E r \in Req :
       /\ data[r].time_series = ListShort
       /\ Rejected(r, MsgTooShort)
       /\ DOMAIN cache[ProcOf(ep[r])] # {}

\* C7: api_forecast answers with the message of the earliest violated rule
\* in the order shape, history length, horizon range, model variant.
C7_FirstFailureWins ==
    \A r \in Req :
       (Received(r) /\ ep[r] = "api_forecast") =>
          LET shapeBad == TsOf(r).t # "list"
              lenBad == TsOf(r).n < 10
              hBad == HOf(r).n < 1 \/ HOf(r).n > 100
              mBad == ~(MOf(r).t = "str" /\ MOf(r).s \in {"tiny", "small", "base", "large"})
              typed == HOf(r).t = "int"
          IN /\ shapeBad => Rejected(r, MsgNotList)
             /\ (~shapeBad /\ lenBad) => Rejected(r, MsgTooShort)
             /\ (~shapeBad /\ ~lenBad /\ typed /\ hBad) => Rejected(r, MsgHorizonChronos)
             /\ (~shapeBad /\ ~lenBad /\ typed /\ ~hBad /\ mBad) => Rejected(r, MsgModel)

\* C7 witness: a payload violating the length, the horizon and the model rule
\* at once was rejected for its length.
C7_Witness ==
    \E r \in Req :
       /\ ep[r] = "api_forecast"
       /\ data[r] = Payload(ListShort, JInt(0), JStr("medium"))
       /\ Rejected(r, MsgTooShort)

\* C8 as claimed: an absent time_series, or one that is null, a scalar or a
\* mapping, is rejected with the invalid-shape message.
C8_AbsentOrNonSequenceInvalidShape ==
    \A r \in Req :
       (Received(r) /\ data[r].time_series.t \in {"absent", "null", "int", "map"})
          => Rejected(r, MsgNotList)

\* C8 amended: a time_series that is present and no list is rejected with
\* the invalid-shape message; an absent one counts as the empty list and is
\* rejected with the insufficient-history message.
C8_NonListInvalidShape ==
    \A r \in Req :
       Received(r) =>
          /\ data[r].time_series.t \in {"null", "int", "map", "str"}
                => Rejected(r, MsgNotList)
          /\ data[r].time_series.t = "absent" => Rejected(r, MsgTooShort)

\* C8 witness: a null time_series was rejected for its shape and a payload
\* without time_series for its length.
C8_Witness ==
    \E r1, r2 \in Req :
       /\ data[r1].time_series = JNull /\ Rejected(r1, MsgNotList)
       /\ Received(r2) /\ data[r2].time_series = JAbsent /\ Rejected(r2, MsgTooShort)

\* C9: with a list of at least 10 points and an integer horizon, a horizon
\* outside 1..100 (api_forecast) or 1..128 (api_timesfm) is rejected with
\* the endpoint's range message before anything is loaded, and a horizon
\* inside the range, bounds included, is not rejected by the horizon rule.
C9_HorizonRange ==
    \A r \in Req :
       (Received(r) /\ TsOf(r).t = "list" /\ TsOf(r).n >= 10 /\ HOf(r).t = "int") =>
          LET max == IF ep[r] = "api_forecast" THEN 100 ELSE 128
              msg == IF ep[r] = "api_forecast" THEN MsgHorizonChronos ELSE MsgHorizonTimesfm
          IN IF HOf(r).n < 1 \/ HOf(r).n > max
             THEN Rejected(r, msg)
             ELSE /\ result[r].error \notin {MsgHorizonChronos, MsgHorizonTimesfm}
                  /\ (ep[r] = "api_timesfm" \/ MOf(r).s \in ModelSizes)
                        => result[r].error \notin ValidationMsgs

\* C9 witness: api_forecast served a request with horizon 100 and rejected
\* one with horizon 101.
C9_Witness ==
    \E r1, r2 \in Req :
       /\ ep[r1] = "api_forecast" /\ data[r1].horizon = JInt(101)
       /\ Rejected(r1, MsgHorizonChronos)
       /\ ep[r2] = "api_forecast" /\ data[r2].horizon = JInt(100)
       /\ Succeeded(r2) /\ result[r2].horizon = 100

\* C10 as claimed: every api_forecast request whose model is none of the four
\* variants is rejected with the enumerated-variant message.
C10_UnknownModelMessage ==
    \A r \in Req :
       (Received(r) /\ ep[r] = "api_forecast"
          /\ ~(MOf(r).t = "str" /\ MOf(r).s \in {"tiny", "small", "base", "large"}))
          => Rejected(r, MsgModel)

\* C10 amended: such a request is always rejected without cache or engine
\* work, and with the enumerated-variant message when it passes the shape,
\* length and horizon rules.
C10_UnknownModelRejected ==
    \A r \in Req :
       (Received(r) /\ ep[r] = "api_forecast"
          /\ ~(MOf(r).t = "str" /\ MOf(r).s \in {"tiny", "small", "base", "large"}))
          => /\ Untouched(r)
             /\ result[r].status = "failed"
             /\ (TsOf(r).t = "list" /\ TsOf(r).n >= 10
                   /\ HOf(r).t = "int" /\ HOf(r).n >= 1 /\ HOf(r).n <= 100)
                   => result[r] = Failed(MsgModel)

\* C10 witness: model "medium" with an otherwise valid payload was rejected
\* while the cache held a loaded model.
C10_Witness ==
    \E r \in Req :
       /\ ep[r] = "api_forecast"
       /\ data[r] = Payload(ListOk, JInt(1), JStr("medium"))
       /\ Rejected(r, MsgModel)
       /\ DOMAIN cache[ProcOf(ep[r])] # {}

\* a result a caller can read: its status is success or failed, and a failed
\* one carries a message
WellFormed(res) ==
    /\ res.status \in {"success", "failed"}
    /\ res.status = "failed" => res.error # ""

\* the request passed validation and forecast_chronos has returned for it
Served(r) == pc[r] = "done" /\ result[r].error \notin ValidationMsgs

\* C11: whatever the payload and whatever fails (validation, the TypeError of
\* a horizon that is no number, the load, the inference), the endpoint
\* returns a well-formed result, and so does forecast_chronos whenever it was
\* called: no call ends in an exception.
C11_NoExceptionEscapes ==
    \A r \in Req :
       pc[r] = "done" =>
          /\ WellFormed(result[r])
          /\ Served(r) => WellFormed(chronos[r])
          /\ ~Served(r) => chronos[r] = NoResult

\* C11 witness: one request failed on a horizon that is no number, another
\* on a load that raised.
C11_Witness ==
    \E r1, r2 \in Req :
       /\ pc[r1] = "done" /\ result[r1] = Failed(MsgTypeError)
       /\ pc[r2] = "done" /\ result[r2] = Failed(MsgLoadError)
       /\ chronos[r2] = Failed(MsgLoadError)

C14_Dispatch ==
    \A r \in Req :
       LET variant == IF ep[r] = "api_timesfm" \/ data[r].model = JAbsent
                      THEN "base" ELSE data[r].model.s
           container == IF ep[r] = "api_timesfm"
                        THEN "forecast_timesfm" ELSE "forecast_chronos"
           key == "amazon/chronos-t5-" \o variant
       IN /\ pc[r] \in {"ret", "predict"} => key \in DOMAIN cache[container]
          /\ Served(r) =>
               /\ ep[r] = "api_forecast" => result[r] = chronos[r]
               /\ chronos[r].status = "success" =>
                     /\ chronos[r].model = key \o " (REAL)"
                     /\ chronos[r].horizon = HOf(r).n
                     /\ key \in DOMAIN cache[container]

\* C14 witness: an api_forecast request without model field was served by
\* 'base', and an api_timesfm request carrying model "tiny" was served by
\* the 'base' key of the forecast_timesfm container.
C14_Witness ==
    \E r1, r2 \in Req :
       /\ ep[r1] = "api_forecast" /\ data[r1].model = JAbsent /\ Succeeded(r1)
       /\ result[r1].model = "amazon/chronos-t5-base (REAL)"
       /\ ep[r2] = "api_timesfm" /\ data[r2].model = JStr("tiny") /\ Succeeded(r2)
       /\ DOMAIN cache["forecast_timesfm"] = {"amazon/chronos-t5-base"}

\* C15: in every step, a request has made at most one from_pretrained call
\* and at most one predict call; a load is only made by a request standing
\* at its load step; and a request that has returned, successfully or not,
\* does nothing more.
C15_NoRetries ==
    [][\A r \in Req :
          /\ loads'[r] <= 1 /\ predicts'[r] <= 1
          /\ loads'[r] > loads[r] => pc[r] = "load"
          /\ predicts'[r] > predicts[r] => pc[r] = "predict"
          /\ pc[r] = "done" =>
                (pc'[r] = "done" /\ loads'[r] = loads[r] /\ predicts'[r] = predicts[r]
                   /\ result'[r] = result[r])]_vars

\* C15 witness: a request whose load raised made one load; a later request
\* for the same key made its own single load, and its inference raised after
\* a single predict call.
C15_Witness ==
    \E r1, r2 \in Req :
       /\ pc[r1] = "done" /\ result[r1] = Failed(MsgLoadError)
       /\ loads[r1] = 1 /\ predicts[r1] = 0
       /\ r1 \in before[r2] /\ SameKey(r1, r2)
       /\ pc[r2] = "done" /\ result[r2] = Failed(MsgInferenceError)
       /\ loads[r2] = 1 /\ predicts[r2] = 1

\* C16: a request that stands at the load step, or has made a load, runs in
\* a process whose CUDA_VISIBLE_DEVICES has been set to "".
C16_ToggleBeforeLoad ==
    \A r \in Req :
       (pc[r] = "load" \/ loads[r] > 0) => cuda_off[ProcOf(ep[r])]

\* C16 witness: a load is about to start in the forecast_timesfm container,
\* whose toggle is set, while the other container has not been entered.
C16_Witness ==
    \E r \in Req :
       /\ pc[r] = "load" /\ ep[r] = "api_timesfm"
       /\ cuda_off["forecast_timesfm"] /\ ~cuda_off["forecast_chronos"]

\* C17: every key of every cache is one of the four chronos-t5 names, no
\* cache holds more than four entries, and the cache of the forecast_timesfm
\* container holds no key but the 'base' one.
C17_CacheKeys ==
    /\ \A p \in Proc :
          /\ DOMAIN cache[p] \subseteq
                {"amazon/chronos-t5-tiny", "amazon/chronos-t5-small",
                 "amazon/chronos-t5-base", "amazon/chronos-t5-large"}
          /\ Cardinality(DOMAIN cache[p]) <= 4
    /\ DOMAIN cache["forecast_timesfm"] \subseteq {"amazon/chronos-t5-base"}

\* C17 witness: the forecast_chronos cache holds 'large' and 'base', loaded
\* for two api_forecast requests.
C17_Witness ==
    DOMAIN cache["forecast_chronos"] = {"amazon/chronos-t5-large", "amazon/chronos-t5-base"}

\* C18: the step in which a load raises leaves every cache as it was; so
\* does the step in which an inference raises, and the key is then still
\* cached; and a request for a key that enters get_chronos_pipeline after a
\* request for that key returned an inference failure finds the key (it
\* goes to the lookup, not to a load).
C18_FailureLeavesCache ==
    [][\A r \in Req :
          /\ (pc[r] = "load" /\ pc'[r] = "done") => cache' = cache
          /\ (pc[r] = "predict" /\ pc'[r] = "done" /\ result'[r].status = "failed")
                => /\ cache' = cache
                   /\ KeyOf(r) \in DOMAIN cache'[ProcOf(ep[r])]
          /\ (pc[r] = "called" /\ pc'[r] # "called"
                /\ \E q \in before[r] :
                      SameKey(q, r) /\ chronos[q] = Failed(MsgInferenceError))
                => pc'[r] = "ret"]_vars

\* C18 witness: a request loaded the model and failed in inference; a later
\* request for the same key was served from the cache without a load.
C18_Witness ==
    \E r1, r2 \in Req :
       /\ chronos[r1] = Failed(MsgInferenceError) /\ loads[r1] = 1
       /\ r1 \in before[r2] /\ SameKey(r1, r2)
       /\ Succeeded(r2) /\ loads[r2] = 0 /\ pipeline[r2] = r1

\* C13: in every successful result, of forecast_chronos and of the endpoint,
\* predictions, confidence_low and confidence_high have exactly horizon
\* entries, and confidence_low[i] <= predictions[i] <= confidence_high[i] at
\* every index i.
C13_BandOrdered ==
    \A r \in Req : \A res \in {result[r], chronos[r]} :
       res.status = "success" =>
          /\ Len(res.predictions) = res.horizon
          /\ Len(res.confidence_low) = res.horizon
          /\ Len(res.confidence_high) = res.horizon
          /\ res.horizon = HOf(r).n
          /\ \A i \in 1..res.horizon :
                /\ res.confidence_low[i] <= res.predictions[i]
                /\ res.predictions[i] <= res.confidence_high[i]

\* C13 witness: a successful forecast of horizon 2 whose band is strict at
\* the first step and whose three values differ between the two steps.
C13_Witness ==
    \E r \in Req :
       /\ Succeeded(r) /\ result[r].horizon = 2
       /\ Len(result[r].predictions) = 2
       /\ result[r].confidence_low[1] < result[r].predictions[1]
       /\ result[r].predictions[1] < result[r].confidence_high[1]
       /\ result[r].predictions[2] # result[r].predictions[1]

====
